---- MODULE Spec2Model ----
(***************************************************************************)
(* Model of the star-registry ledger: class Block (block.js) and class     *)
(* Blockchain (src/blockchain.js).                                         *)
(*                                                                         *)
(* The program runs on a JavaScript event loop.  Every method returns a    *)
(* promise; the code between two awaits runs atomically, and every         *)
(* continuation is a job on the FIFO microtask queue.  The model keeps     *)
(* that queue as the variable `queue`: a caller may start an operation     *)
(* between any two jobs (its synchronous part runs at once), and the       *)
(* job-running actions always take the head of the queue.                  *)
(*                                                                         *)
(* The clock `now` is the value of                                         *)
(* new Date().getTime().toString().slice(0,-3), i.e. whole seconds.        *)
(* SHA256 is modelled as an injective digest of the stringified block.     *)
(***************************************************************************)
EXTENDS Integers, Sequences, FiniteSets, TLC

\* ------------------------------------------------------------------ bounds
MaxCalls == 3      \* things done to the ledger from outside: operations
                   \* started (the constructor's included) and overwrites
MaxTicks == 1      \* advances of the clock
MaxTamper == 1     \* overwrites of stored blocks (SpecTamper only)

\* --------------------------------------------------------------- constants
ChallengeWindow == 300

Addresses == {"addr1", "addr2"}
Stars == {"s1"}
MsgTimes == {0, 1}
TickSteps == {ChallengeWindow, ChallengeWindow + 1}

Null == <<>>

VARIABLES
    chain,        \* this.chain
    height,       \* this.height
    now,          \* the clock, in seconds
    queue,        \* the microtask queue
    calls,        \* the operations started so far: kind, state of the promise
                  \* returned to the caller, value observed by the caller
    blk,          \* the block each operation holds
    errorLog,     \* the errorLog array of each operation's validateChain()
    origin,       \* history: the operation that pushed each block
    sealedChain,  \* history: each block as it was pushed
    tampers,      \* history: external mutations so far
    stars,        \* the stars array of each operation's getStarsByWalletAddress()
    inputs        \* history: the inputs of the submitStar calls that are
                  \* followed (SpecRound only)

vars == <<chain, height, now, queue, calls, blk, errorLog, origin,
          sealedChain, tampers, stars, inputs>>

\* ------------------------------------------------------------------ Block
\* The tokens JSON.stringify produces for the payloads of this program; a
\* token's hex form is its position in this table.
Alphabet == <<"{", "}", ":", ",", "data", "Genesis Block", "star", "owner",
              "addr1", "addr2", "s1", "s2">>

RECURSIVE JSONStringifyPairs(_)
JSONStringifyPairs(pairs) ==
    IF pairs = <<>> THEN <<>>
    ELSE <<pairs[1][1], ":", pairs[1][2]>>
         \o (IF Len(pairs) > 1 THEN <<",">> ELSE <<>>)
         \o JSONStringifyPairs(Tail(pairs))

\* JSON.stringify of an object given as its <<key, value>> pairs in order
JSONStringify(pairs) == <<"{">> \o JSONStringifyPairs(pairs) \o <<"}">>

ToHex(tokens) ==
    [k \in 1..Len(tokens) |->
        CHOOSE c \in 1..Len(Alphabet) : Alphabet[c] = tokens[k]]

\* new Block(data)
Block(data) ==
    [hash |-> Null,
     height |-> 0,
     body |-> ToHex(JSONStringify(data)),
     timeStamp |-> 0,
     previousBlockHash |-> Null]

GenesisData == << <<"data", "Genesis Block">> >>
StarData(star, address) == << <<"star", star>>, <<"owner", address>> >>

\* hex2ascii(body)
hex2ascii(body) == [k \in 1..Len(body) |-> Alphabet[body[k]]]

\* JSON.parse of the tokens of an object: its <<key, value>> pairs in order
JSONParse(tokens) ==
    [n \in 1..((Len(tokens) - 1) \div 4) |->
        <<tokens[4 * n - 2], tokens[4 * n]>>]

\* data.owner (Null: undefined)
Owner(data) ==
    IF \E n \in 1..Len(data) : data[n][1] = "owner"
    THEN data[CHOOSE n \in 1..Len(data) : data[n][1] = "owner"][2]
    ELSE Null

\* Block.getBData(): the state of the promise when the executor returns.
\* `obj = JSON.parse(decodedData)` assigns to a name the file never declares,
\* and a class body is strict code: the assignment throws a ReferenceError
\* unless the host has bound a global `obj` (objBound).  resolve(obj) is
\* called only for height > 0.
getBData(b, objBound) ==
    IF ~objBound THEN [state |-> "rejected", data |-> <<>>]
    ELSE IF b.height > 0
         THEN [state |-> "resolved", data |-> JSONParse(hex2ascii(b.body))]
         ELSE [state |-> "pending", data |-> <<>>]

\* SHA256(JSON.stringify(block)).toString(): injective in all five fields
SHA256Mut(b) == << [b EXCEPT !.body = <<>>] >>
SHA256(b) == << b >>

\* Block.validate(): hash cleared, digest recomputed, hash restored
validate(b) == b.hash = SHA256([b EXCEPT !.hash = Null])

\* the block after validate(): `self.hash = null`, then
\* `self.hash = currentHash`
afterValidateNoRestore(b) == [b EXCEPT !.hash = Null]
afterValidate(b) == [[b EXCEPT !.hash = Null] EXCEPT !.hash = b.hash]

\* ------------------------------------------------------------- Blockchain
GenesisMsg == "Genesis Block is not valid"
\* block + "is not validated" stringifies the block object
NotValidatedMsg == "[object Object]is not validated"

\* a JavaScript array is truthy whatever it holds
Truthy(arr) == TRUE

\* a continuation on the microtask queue: the operation it belongs to, the
\* point it resumes at, and the locals it captured
Job(op, pc, idx, ok, gen) ==
    [op |-> op, pc |-> pc, idx |-> idx, ok |-> ok, gen |-> gen]

\* chain.filter(p => p.height === h)[0], as a position in the chain (0: none)
FirstWithHeight(ch, h) ==
    IF \E i \in 1..Len(ch) : ch[i].height = h
    THEN CHOOSE i \in 1..Len(ch) :
            /\ ch[i].height = h
            /\ \A j \in 1..(i-1) : ch[j].height # h
    ELSE 0

\* the forEach callback of validateChain reaches `await block.validate()`
\* for the block at position i (self.chain[block.height-1] is position
\* block.height here; reading .hash of a missing element throws)
ReachesValidate(ch, i) ==
    \/ ch[i].height = 0
    \/ /\ ch[i].height \in 1..Len(ch)
       /\ ch[i].previousBlockHash = ch[ch[i].height].hash

\* the block at position i is above genesis and its previousBlockHash is
\* not the hash of self.chain[block.height-1]
Unlinked(ch, i) == ch[i].height > 0 /\ ~ReachesValidate(ch, i)

\* the jobs the synchronous part of validateChain leaves on the queue: one
\* per block whose validate() promise is awaited, in chain order
ScanJobs(op, ch) ==
    LET idxs == SelectSeq([i \in 1..Len(ch) |-> i],
                          LAMBDA i : ReachesValidate(ch, i))
    IN [k \in 1..Len(idxs) |->
           Job(op, "valHop", idxs[k], validate(ch[idxs[k]]),
               ch[idxs[k]].height = 0)]

\* the jobs the synchronous part of getStarsByWalletAddress leaves on the
\* queue: one per block whose getBData() promise is settled, in chain order
BDataJobs(op, ch, objBound) ==
    LET idxs == SelectSeq([i \in 1..Len(ch) |-> i],
                    LAMBDA i : getBData(ch[i], objBound).state # "pending")
    IN [k \in 1..Len(idxs) |->
           Job(op, "bdHop", getBData(ch[idxs[k]], objBound).data,
               getBData(ch[idxs[k]], objBound).state = "resolved", FALSE)]

\* the chain after the synchronous part of validateChain: validate() has
\* run on the blocks the scan reached
AfterScan(ch) ==
    [i \in 1..Len(ch) |->
        IF ReachesValidate(ch, i) THEN afterValidate(ch[i]) ELSE ch[i]]

\* self.chain.push(block)
unshift(ch, b) == <<b>> \o ch
push(ch, b) == Append(ch, b)

\* self.height++ (h: this.height, b: the block just pushed)
heightOfBlock(h, b) == b.height
increment(h, b) == h + 1

\* an operation as its caller sees it.
\*   status:  "pending"; "resolved" (the promise is fulfilled); "unsettled"
\*            (submitStar called neither resolve nor reject, and nothing is
\*            left that could); "hung" (it awaits a promise that nothing
\*            will settle)
\*   appends: it entered _addBlock
\*   value:   what the caller received (a height, an error list)
\*   facts:   history, the facts of the call's inputs
Call(kind, status, appends, value, facts) ==
    [kind |-> kind, status |-> status, appends |-> appends, value |-> value,
     facts |-> facts]

\* late: the challenge was older than the window when submitted;
\* forged: the signature was not made by the submitting address;
\* bad: the positions whose body differed from the sealed one at the call
Facts(late, forged, bad) == [late |-> late, forged |-> forged, bad |-> bad]
NoFacts == Facts(FALSE, FALSE, {})

NoBlock == [hash |-> Null, height |-> 0, body |-> <<>>, timeStamp |-> 0,
            previousBlockHash |-> Null]

Head1(q) == q[1]
HasJob(pc) == queue # <<>> /\ Head1(queue).pc = pc

Init ==
    /\ chain = <<>>
    /\ height = -1
    /\ now \in {0}
    \* the constructor has called initializeChain(): height is -1, the
    \* genesis block is built and _addBlock awaits getChainHeight()
    /\ queue = << Job(1, "add1", -1, TRUE, FALSE) >>
    /\ calls = << Call("init", "pending", TRUE, <<>>, NoFacts) >>
    /\ blk = << Block(GenesisData) >>
    /\ errorLog = << <<>> >>
    /\ origin = <<>>
    /\ sealedChain = <<>>
    /\ tampers = 0
    /\ stars = << <<>> >>
    /\ inputs = <<>>

NewCall(kind, status, appends, value, facts, block) ==
    /\ calls' = Append(calls, Call(kind, status, appends, value, facts))
    /\ blk' = Append(blk, block)
    /\ errorLog' = Append(errorLog, <<>>)
    /\ stars' = Append(stars, <<>>)

SetStatus(op, st) == calls' = [calls EXCEPT ![op].status = st]

\* _getCurrentTimeStamp()
_getCurrentTimeStamp == now

\* requestMessageOwnershipVerification(address), as split(':') sees it
requestMessageOwnershipVerification(address, t) ==
    <<address, t, "starRegistry">>

\* bitcoinMessage.verify(message, address, signature)
verify(message, address, signature) ==
    signature.signer = address /\ signature.msg = message

\* getChainHeight(): resolve(this.height) runs when the method is called
GetChainHeight ==
    /\ Len(calls) + tampers < MaxCalls
    /\ NewCall("height", "resolved", FALSE, <<height>>, NoFacts, NoBlock)
    /\ UNCHANGED <<chain, height, now, queue, origin, sealedChain, tampers,
                   inputs>>

\* requestMessageOwnershipVerification(address) called by a holder of the
\* ledger: the promise is resolved with the challenge at once
RequestChallenge ==
    /\ Len(calls) + tampers < MaxCalls
    /\ \E address \in Addresses :
          NewCall("challenge", "resolved", FALSE,
                  << requestMessageOwnershipVerification(address,
                                                         _getCurrentTimeStamp) >>,
                  [address |-> address, at |-> now], NoBlock)
    /\ UNCHANGED <<chain, height, now, queue, origin, sealedChain, tampers,
                   inputs>>

\* chain.filter(p => p.hash === hash)[0], as a position in the chain (0: none)
FirstWithHash(ch, hash) ==
    IF \E i \in 1..Len(ch) : ch[i].hash = hash
    THEN CHOOSE i \in 1..Len(ch) :
            /\ ch[i].hash = hash
            /\ \A j \in 1..(i-1) : ch[j].hash # hash
    ELSE 0

\* a lookup: resolve(block) is called only when a block was found; on a miss
\* the promise is never settled
Lookup(kind, key, found) ==
    /\ Len(calls) + tampers < MaxCalls
    /\ IF found = 0
       THEN /\ NewCall(kind, "unsettled", FALSE, <<>>, [key |-> key], NoBlock)
            /\ queue' = queue
       ELSE /\ NewCall(kind, "pending", FALSE, <<>>, [key |-> key], NoBlock)
            /\ queue' = Append(queue,
                   Job(Len(calls) + 1, "lookHop", found, TRUE, FALSE))
    /\ UNCHANGED <<chain, height, now, origin, sealedChain, tampers,
                   inputs>>

\* getBlockByHeight(height) called by a holder of the ledger
LookupHeights == -1 .. MaxCalls
GetBlockByHeight ==
    \E h \in LookupHeights :
        Lookup("byHeight", h, FirstWithHeight(chain, h))

\* getBlockByHash(hash) called by a holder of the ledger
GetBlockByHash ==
    \E hash \in {chain[i].hash : i \in 1..Len(chain)} \cup {SHA256(NoBlock)} :
        Lookup("byHash", hash, FirstWithHash(chain, hash))

\* the promise a lookup returns (through .catch) is resolved
LookupHop ==
    /\ HasJob("lookHop")
    /\ LET j == Head1(queue)
       IN queue' = Append(Tail(queue),
                          Job(j.op, "lookRet", j.idx, TRUE, FALSE))
    /\ UNCHANGED <<chain, height, now, calls, blk, errorLog,
                   origin, sealedChain, tampers, stars, inputs>>

\* the caller of a lookup resumes with the block
LookupReturn ==
    /\ HasJob("lookRet")
    /\ LET j == Head1(queue)
       IN calls' = [calls EXCEPT ![j.op].status = "resolved",
                                 ![j.op].value = << chain[j.idx] >>]
    /\ queue' = Tail(queue)
    /\ UNCHANGED <<chain, height, now, blk, errorLog, origin,
                   sealedChain, tampers, stars, inputs>>

\* the decoded payloads of the blocks above genesis that address owns
OwnedBy(ch, address) ==
    LET idxs == SelectSeq([i \in 1..Len(ch) |-> i],
                    LAMBDA i : /\ ch[i].height > 0
                               /\ Owner(JSONParse(hex2ascii(ch[i].body)))
                                    = address)
    IN [k \in 1..Len(idxs) |-> JSONParse(hex2ascii(ch[idxs[k]].body))]

\* getStarsByWalletAddress(address) called by a holder of the ledger: every
\* getBData() is started, the callbacks are left awaiting, resolve(stars)
GetStarsByWalletAddress ==
    /\ Len(calls) + tampers < MaxCalls
    /\ \E address \in Addresses, objBound \in BOOLEAN :
          /\ NewCall("stars", "pending", FALSE, <<>>,
                     [address |-> address,
                      owned |-> OwnedBy(chain, address)], NoBlock)
          /\ queue' = queue \o BDataJobs(Len(calls) + 1, chain, objBound)
                            \o << Job(Len(calls) + 1, "starsRet", 0, TRUE,
                                      FALSE) >>
    /\ UNCHANGED <<chain, height, now, origin, sealedChain, tampers,
                   inputs>>

\* the promise block.getBData() returns (through .catch) is settled
BDataHop ==
    /\ HasJob("bdHop")
    /\ LET j == Head1(queue)
       IN queue' = Append(Tail(queue),
                          Job(j.op, "bdCont", j.idx, j.ok, FALSE))
    /\ UNCHANGED <<chain, height, now, calls, blk, errorLog,
                   origin, sealedChain, tampers, stars, inputs>>

\* the forEach callback of getStarsByWalletAddress resumes: the await throws
\* when the promise was rejected; otherwise stars.push(data) or reject(),
\* which does nothing to a promise already resolved
BDataCont ==
    /\ HasJob("bdCont")
    /\ LET j == Head1(queue)
           data == j.idx
       IN /\ stars' =
               IF j.ok /\ Owner(data) = calls[j.op].facts.address
               THEN [stars EXCEPT ![j.op] = Append(@, data)]
               ELSE stars
          /\ queue' = Tail(queue)
    /\ UNCHANGED <<chain, height, now, calls, blk, errorLog, origin,
                   sealedChain, tampers, inputs>>

\* the caller of getStarsByWalletAddress resumes with the stars array
StarsReturn ==
    /\ HasJob("starsRet")
    /\ LET j == Head1(queue)
       IN calls' = [calls EXCEPT ![j.op].status = "resolved",
                                 ![j.op].value = stars[j.op]]
    /\ queue' = Tail(queue)
    /\ UNCHANGED <<chain, height, now, blk, errorLog, origin,
                   sealedChain, tampers, stars, inputs>>

\* initializeChain() called again by a holder of the ledger
InitializeChain ==
    /\ Len(calls) + tampers < MaxCalls
    /\ IF height = -1
       THEN /\ NewCall("init", "pending", TRUE, <<>>, NoFacts,
                    Block(GenesisData))
            /\ queue' = Append(queue,
                           Job(Len(calls) + 1, "add1", height, TRUE, FALSE))
       ELSE /\ NewCall("init", "resolved", FALSE, <<>>, NoFacts, NoBlock)
            /\ queue' = queue
    /\ UNCHANGED <<chain, height, now, origin, sealedChain, tampers,
                   inputs>>

\* `currTime - msgTime <= 300`
ChallengeFreshMs(currTime, msgTime) == currTime - msgTime <= 300000
ChallengeFreshStrict(currTime, msgTime) == currTime - msgTime < ChallengeWindow
ChallengeFresh(currTime, msgTime) == currTime - msgTime <= ChallengeWindow

\* submitStar(address, message, signature, star), up to the first await
SubmitStar(address, message, signature, star) ==
    /\ Len(calls) + tampers < MaxCalls
    /\ LET msgTime == message[2]
           currTime == _getCurrentTimeStamp
           facts == Facts(now - message[2] > ChallengeWindow,
                          signature.signer # address, {})
       IN IF ChallengeFresh(currTime, msgTime)
             /\ verify(message, address, signature)
          THEN /\ NewCall("submit", "pending", TRUE, <<>>, facts,
                          Block(StarData(star, address)))
               /\ queue' = Append(queue,
                      Job(Len(calls) + 1, "add1", height, TRUE, FALSE))
          ELSE /\ NewCall("submit", "unsettled", FALSE, <<>>, facts, NoBlock)
               /\ queue' = queue
    /\ UNCHANGED <<chain, height, now, origin, sealedChain, tampers>>

\* _addBlock from `block.timeStamp = ...` to `await self.validateChain()`
SealAndScan(op, prevIdx, rest) ==
    LET b0 == blk[op]
        b1 == IF prevIdx > 0
              THEN [b0 EXCEPT !.previousBlockHash = chain[prevIdx].hash]
              ELSE b0
        b2 == [b1 EXCEPT !.timeStamp = _getCurrentTimeStamp]
        newHeight == height + 1
        b3 == [b2 EXCEPT !.height = newHeight]
        b4 == [b3 EXCEPT !.hash = SHA256(b3)]
    IN /\ blk' = [blk EXCEPT ![op] = b4]
       /\ errorLog' = [errorLog EXCEPT ![op] = <<>>]
       /\ chain' = AfterScan(chain)
       /\ queue' = rest \o ScanJobs(op, chain)
                        \o << Job(op, "add3", 0, TRUE, FALSE) >>

\* _addBlock resumes with chainHeight; getBlockByHeight(self.height) settles
\* only when a block of that height is found
AddBlockStep1 ==
    /\ HasJob("add1")
    /\ LET j == Head1(queue)
       IN IF j.idx > -1
          THEN LET found == FirstWithHeight(chain, height)
               IN /\ IF found = 0
                     THEN /\ SetStatus(j.op, "hung")
                          /\ queue' = Tail(queue)
                     ELSE /\ calls' = calls
                          /\ queue' = Append(Tail(queue),
                                 Job(j.op, "gbhHop", found, TRUE, FALSE))
                  /\ UNCHANGED <<chain, blk, errorLog>>
          ELSE /\ SealAndScan(j.op, 0, Tail(queue))
               /\ calls' = calls
    /\ UNCHANGED <<height, now, origin, sealedChain, tampers,
                   stars, inputs>>

\* the promise getBlockByHeight(...).catch(...) returns is resolved
GetBlockHop ==
    /\ HasJob("gbhHop")
    /\ LET j == Head1(queue)
       IN queue' = Append(Tail(queue), Job(j.op, "add2", j.idx, TRUE, FALSE))
    /\ UNCHANGED <<chain, height, now, calls, blk, errorLog,
                   origin, sealedChain, tampers,
                   stars, inputs>>

\* _addBlock resumes with prevBlock
AddBlockStep2 ==
    /\ HasJob("add2")
    /\ LET j == Head1(queue)
       IN SealAndScan(j.op, j.idx, Tail(queue))
    /\ UNCHANGED <<height, now, calls, origin, sealedChain, tampers,
                   stars, inputs>>

\* the promise block.validate() returns (through .catch) is resolved
ValidateHop ==
    /\ HasJob("valHop")
    /\ LET j == Head1(queue)
       IN queue' = Append(Tail(queue),
                          Job(j.op, "valCont", j.idx, j.ok, j.gen))
    /\ UNCHANGED <<chain, height, now, calls, blk, errorLog,
                   origin, sealedChain, tampers,
                   stars, inputs>>

\* the forEach callback of validateChain resumes with isValid
ValidateCont ==
    /\ HasJob("valCont")
    /\ LET j == Head1(queue)
       IN /\ errorLog' =
               IF j.ok THEN errorLog
               ELSE [errorLog EXCEPT ![j.op] =
                       Append(@, IF j.gen THEN GenesisMsg
                                 ELSE NotValidatedMsg)]
          /\ queue' = Tail(queue)
    /\ UNCHANGED <<chain, height, now, calls, blk, origin,
                   sealedChain, tampers,
                   stars, inputs>>

\* _addBlock resumes with isValid (the errorLog array): push, height++,
\* resolve(block)
AddBlockCommit ==
    /\ HasJob("add3")
    /\ LET j == Head1(queue)
           isValid == errorLog[j.op]
       IN /\ IF Truthy(isValid)
             THEN /\ chain' = push(chain, blk[j.op])
                  /\ height' = increment(height, blk[j.op])
                  /\ origin' = Append(origin, j.op)
                  /\ sealedChain' = Append(sealedChain, blk[j.op])
             ELSE UNCHANGED <<chain, height, origin, sealedChain>>
          /\ queue' = Append(Tail(queue), Job(j.op, "addHop", 0, TRUE, FALSE))
    /\ UNCHANGED <<now, calls, blk, errorLog, tampers,
                   stars, inputs>>

\* the promise _addBlock(...).catch(...) returns is resolved
AddBlockHop ==
    /\ HasJob("addHop")
    /\ LET j == Head1(queue)
       IN queue' = Append(Tail(queue),
                          Job(j.op, "callerCont", 0, TRUE, FALSE))
    /\ UNCHANGED <<chain, height, now, calls, blk, errorLog,
                   origin, sealedChain, tampers,
                   stars, inputs>>

\* the caller of _addBlock resumes: initializeChain returns, submitStar
\* calls resolve(block)
CallerCont ==
    /\ HasJob("callerCont")
    /\ LET j == Head1(queue)
       IN IF calls[j.op].kind = "submit"
          THEN /\ queue' = Append(Tail(queue),
                                  Job(j.op, "submitHop", 0, TRUE, FALSE))
               /\ calls' = calls
          ELSE /\ queue' = Tail(queue)
               /\ SetStatus(j.op, "resolved")
    /\ UNCHANGED <<chain, height, now, blk, errorLog, origin,
                   sealedChain, tampers,
                   stars, inputs>>

\* the promise submitStar(...).catch(...) returns is resolved with the block
SubmitHop ==
    /\ HasJob("submitHop")
    /\ SetStatus(Head1(queue).op, "resolved")
    /\ queue' = Tail(queue)
    /\ UNCHANGED <<chain, height, now, blk, errorLog, origin,
                   sealedChain, tampers,
                   stars, inputs>>

\* validateChain() called by a holder of the ledger, up to resolve(errorLog)
ValidateChainCall ==
    /\ Len(calls) + tampers < MaxCalls
    /\ NewCall("validate", "pending", FALSE, <<>>,
               [late |-> FALSE, forged |-> FALSE,
                bad |-> {i \in 1..Len(chain) :
                            chain[i].body # sealedChain[i].body},
                unlinked |-> {i \in 1..Len(chain) : Unlinked(chain, i)}],
               NoBlock)
    /\ chain' = AfterScan(chain)
    /\ queue' = queue \o ScanJobs(Len(calls) + 1, chain)
                      \o << Job(Len(calls) + 1, "vcRet", 0, TRUE, FALSE) >>
    /\ UNCHANGED <<height, now, origin, sealedChain, tampers,
                   inputs>>

\* the caller of validateChain() resumes with the list
ValidateChainReturn ==
    /\ HasJob("vcRet")
    /\ LET j == Head1(queue)
       IN calls' = [calls EXCEPT ![j.op].status = "resolved",
                                 ![j.op].value = errorLog[j.op]]
    /\ queue' = Tail(queue)
    /\ UNCHANGED <<chain, height, now, blk, errorLog, origin,
                   sealedChain, tampers,
                   stars, inputs>>

\* time passes: by the length of the challenge window, or a second more
Tick ==
    /\ now \div ChallengeWindow < MaxTicks
    /\ \E d \in TickSteps : now' = now + d
    /\ UNCHANGED <<chain, height, queue, calls, blk, errorLog,
                   origin, sealedChain, tampers,
                   stars, inputs>>

Submit ==
    \E address \in Addresses, t \in MsgTimes, signer \in Addresses,
       star \in Stars :
        LET message == requestMessageOwnershipVerification(address, t)
        IN /\ SubmitStar(address, message,
                         [signer |-> signer, msg |-> message], star)
           /\ UNCHANGED inputs

\* the age of a challenge as far as the window tells ages apart: the ages
\* below 299 are kept as 299, the ages above 302 as 302
NearWindow(e) ==
    IF e < ChallengeWindow - 1 THEN ChallengeWindow - 1
    ELSE IF e > ChallengeWindow + 2 THEN ChallengeWindow + 2
    ELSE e

\* submitStar, with the age of the challenge and the outcome of verify kept
SubmitTimed ==
    \E address \in Addresses, t \in MsgTimes, signer \in Addresses,
       star \in Stars :
        LET message == requestMessageOwnershipVerification(address, t)
            signature == [signer |-> signer, msg |-> message]
        IN /\ SubmitStar(address, message, signature, star)
           /\ inputs' = Append(inputs,
                  [call |-> Len(calls) + 1,
                   elapsed |-> NearWindow(_getCurrentTimeStamp - message[2]),
                   verified |-> verify(message, address, signature)])

\* submitStar, with the inputs of the call kept (ready: a genesis block was
\* stored when the call was made)
SubmitFollowed ==
    \E address \in Addresses, t \in MsgTimes, signer \in Addresses,
       star \in Stars :
        LET message == requestMessageOwnershipVerification(address, t)
            signature == [signer |-> signer, msg |-> message]
        IN /\ SubmitStar(address, message, signature, star)
           /\ inputs' = Append(inputs,
                  [call |-> Len(calls) + 1, address |-> address,
                   message |-> message, signature |-> signature,
                   star |-> star, at |-> now, ready |-> height >= 0])

\* someone outside the program overwrites a field of a stored block
TamperBodies == { ToHex(JSONStringify(StarData("s2", "addr2"))) }
TamperHeights == {0, 1}
TamperTimes == { 7 }

Tamper ==
    /\ tampers < MaxTamper
    /\ Len(calls) + tampers < MaxCalls
    /\ tampers' = tampers + 1
    /\ \E i \in 1..Len(chain) :
         \/ \E v \in TamperBodies :
               v # chain[i].body /\ chain' = [chain EXCEPT ![i].body = v]
         \/ \E v \in TamperHeights :
               v # chain[i].height /\ chain' = [chain EXCEPT ![i].height = v]
         \/ \E v \in TamperTimes :
               v # chain[i].timeStamp
                 /\ chain' = [chain EXCEPT ![i].timeStamp = v]
         \/ \E v \in {Null, chain[i].hash} :
               v # chain[i].previousBlockHash
                 /\ chain' = [chain EXCEPT ![i].previousBlockHash = v]
    /\ UNCHANGED <<height, now, queue, calls, blk, errorLog,
                   origin, sealedChain,
                   stars, inputs>>

\* the continuations, run from the head of the microtask queue
RunJob ==
    \/ AddBlockStep1
    \/ GetBlockHop
    \/ AddBlockStep2
    \/ ValidateHop
    \/ ValidateCont
    \/ AddBlockCommit
    \/ AddBlockHop
    \/ CallerCont
    \/ SubmitHop
    \/ ValidateChainReturn

\* the continuations of an append
AppendJob ==
    \/ AddBlockStep1
    \/ GetBlockHop
    \/ AddBlockStep2
    \/ ValidateHop
    \/ ValidateCont
    \/ AddBlockCommit
    \/ AddBlockHop
    \/ CallerCont
    \/ SubmitHop

\* the ledger and its callers
Next ==
    \/ GetChainHeight
    \/ InitializeChain
    \/ Submit
    \/ ValidateChainCall
    \/ RunJob
    \/ Tick

Spec == Init /\ [][Next]_vars

\* the ledger, callers that append and scan, and a party that overwrites
\* stored blocks
NextTamper ==
    \/ Submit
    \/ ValidateChainCall
    \/ RunJob
    \/ Tamper

SpecTamper == Init /\ [][NextTamper]_vars

\* the continuations of the lookups and of getStarsByWalletAddress
ReadJob ==
    \/ LookupHop
    \/ LookupReturn
    \/ BDataHop
    \/ BDataCont
    \/ StarsReturn

\* the ledger, callers that submit records and callers that read
NextRead ==
    \/ Submit
    \/ RunJob
    \/ GetChainHeight
    \/ RequestChallenge
    \/ GetBlockByHeight
    \/ GetBlockByHash
    \/ GetStarsByWalletAddress
    \/ ValidateChainCall
    \/ ReadJob

SpecRead == Init /\ [][NextRead]_vars

\* the ledger, its clock and callers that submit records
NextWindow ==
    \/ SubmitTimed
    \/ AppendJob
    \/ Tick

SpecWindow == Init /\ [][NextWindow]_vars

\* the ledger and callers that submit records, each call's inputs kept
NextRound ==
    \/ SubmitFollowed
    \/ AppendJob

SpecRound == Init /\ [][NextRound]_vars

\* ================================================================= claims
Ops == 1..Len(calls)
Pos == 1..Len(chain)

SubmitCalls == {k \in Ops : calls[k].kind = "submit"}
ValidateCalls == {k \in Ops : calls[k].kind = "validate"}
\* initializeChain() calls, other than the constructor's, that appended
ExtraInit == {k \in Ops : k > 1 /\ calls[k].kind = "init" /\ calls[k].appends}

\* C1: append commits a block only when the validateChain() run of that
\* append reports no error: no block is in the chain whose append-time
\* error list holds an entry.
C1_ValidateBeforeCommit ==
    \A i \in 1..Len(origin) : errorLog[origin[i]] = <<>>

\* C2: on a ledger used through its constructor and submitStar only, every
\* block after the first has previousBlockHash equal to the stored hash of
\* the block before it, and only the first block has a null
\* previousBlockHash.
C2_Linkage ==
    ExtraInit = {} =>
        \A i \in Pos :
            i > 1 => /\ chain[i].previousBlockHash = chain[i-1].hash
                     /\ chain[i].previousBlockHash # Null

\* C3: on a ledger used through its constructor and submitStar only, the
\* block at chain position i (counted from 0) has height i.
C3_HeightIsIndex ==
    ExtraInit = {} => \A i \in Pos : chain[i].height = i - 1

\* C4: a holder of the constructed ledger never reads height -1 from
\* getChainHeight().
C4_NeverObservesEmpty ==
    \A k \in Ops : calls[k].kind = "height" => calls[k].value[1] >= 0

\* C5: the chain holds at most one genesis block (height 0, null
\* previousBlockHash), and it is the first block.
C5_OneGenesis ==
    \A i \in Pos :
        (chain[i].height = 0 /\ chain[i].previousBlockHash = Null) => i = 1

\* C6: when N accepted submitStar calls have been made on a ledger nobody
\* re-initialized and the ledger has nothing left to run, height is N; and
\* every error list validateChain() hands to its caller is empty.
Accepted == {k \in SubmitCalls : calls[k].appends}

C6_AppendN ==
    /\ (ExtraInit = {} /\ queue = <<>>) => height = Cardinality(Accepted)
    /\ \A k \in ValidateCalls :
          calls[k].status = "resolved" => calls[k].value = <<>>

\* C7: the list validateChain() returns names the height of every block
\* whose body had been overwritten when validateChain() was called.
EntryHeights(e) == IF e = GenesisMsg THEN {0} ELSE {}

C7_TamperReported ==
    \A k \in ValidateCalls :
        calls[k].status = "resolved" =>
            \A i \in calls[k].facts.bad :
                \E n \in 1..Len(calls[k].value) :
                    sealedChain[i].height \in EntryHeights(calls[k].value[n])

\* C8: a block in the chain passes validate() exactly when its height, body,
\* timeStamp and previousBlockHash are the ones it was sealed with.
SameFields(b, c) ==
    /\ b.height = c.height
    /\ b.body = c.body
    /\ b.timeStamp = c.timeStamp
    /\ b.previousBlockHash = c.previousBlockHash

C8_ValidateIffUntouched ==
    \A i \in Pos : validate(chain[i]) <=> SameFields(chain[i], sealedChain[i])

C8_Witness ==
    \E i, j \in Pos :
        /\ ~SameFields(chain[i], sealedChain[i]) /\ ~validate(chain[i])
        /\ i # j /\ validate(chain[j])

\* C9: a submitStar call with an expired challenge or a signature not made
\* by the address leaves chain, height and the queue as they were, and no
\* block of such a call is ever in the chain.
Rejected(c) == c.kind = "submit" /\ (c.facts.late \/ c.facts.forged)

C9_RejectedChangesNothing ==
    /\ [][(Len(calls') = Len(calls) + 1 /\ Rejected(calls'[Len(calls')]))
            => (chain' = chain /\ height' = height /\ queue' = queue)]_vars
    /\ [](\A i \in 1..Len(origin) : ~Rejected(calls[origin[i]]))

C9_Witness ==
    /\ \E k \in Ops : Rejected(calls[k]) /\ calls[k].facts.late
    /\ \E k \in Ops : Rejected(calls[k]) /\ ~calls[k].facts.late
    /\ Len(chain) = 1

\* C10: every rejected submitStar call gives its caller a result naming the
\* rejection: ChallengeExpired for an expired challenge, InvalidSignature
\* for a signature that does not verify.
C10_RejectionNamed ==
    \A k \in SubmitCalls :
        /\ calls[k].facts.late => calls[k].status = "ChallengeExpired"
        /\ (~calls[k].facts.late /\ calls[k].facts.forged)
              => calls[k].status = "InvalidSignature"

\* C11: a submitStar call whose signature was made by the address hands its
\* record to _addBlock exactly when the clock minus the second field of the
\* challenge is at most 300; and no record of a call outside the window is
\* ever in the chain.
Followed == 1..Len(inputs)
Elapsed(n) == inputs[n].elapsed
SignedByAddress(n) == inputs[n].verified

HeightLookups == {k \in Ops : calls[k].kind = "byHeight"}

C12_LookupCompletes ==
    \A k \in HeightLookups :
        /\ calls[k].status \in {"pending", "resolved"}
        /\ calls[k].status = "resolved" =>
              calls[k].value[1].height = calls[k].facts.key

\* C13: the list getStarsByWalletAddress(address) hands to its caller holds
\* exactly the decoded payloads of the blocks above genesis that the address
\* owned when the call was made, in chain order.
StarsCalls == {k \in Ops : calls[k].kind = "stars"}

C13_StarsOfOwner ==
    \A k \in StarsCalls :
        calls[k].status = "resolved" =>
            calls[k].value = calls[k].facts.owned

\* C14: an operation that entered _addBlock and has nothing left on the
\* queue has returned to its caller.
NoJobOf(k) == \A n \in 1..Len(queue) : queue[n].op # k

C14_AppendsComplete ==
    \A k \in Ops :
        (calls[k].appends /\ NoJobOf(k)) => calls[k].status = "resolved"

\* C15: in every step the chain before the step is a prefix of the chain
\* after it: the length never decreases and every block already stored keeps
\* its five fields.
C15_AppendOnly ==
    [][/\ Len(chain') >= Len(chain)
       /\ \A i \in 1..Len(chain) : chain'[i] = chain[i]]_vars

C15_Witness ==
    /\ Len(chain) >= 2
    /\ chain = sealedChain
    /\ \E k \in SubmitCalls : calls[k].status = "resolved"

\* C16: a challenge of the form address:t:starRegistry, submitted with a
\* signature of the address no later than t + 300 on a ledger that holds
\* its genesis block, appends exactly one block, whose decoded body is
\* {star, owner: address}, and that block is the one returned.
RoundTrip(n) ==
    /\ inputs[n].ready
    /\ inputs[n].message =
          requestMessageOwnershipVerification(inputs[n].address,
                                              inputs[n].message[2])
    /\ verify(inputs[n].message, inputs[n].address, inputs[n].signature)
    /\ inputs[n].at - inputs[n].message[2] \in 0..300

C16_RoundTrip ==
    \A n \in Followed :
        (RoundTrip(n) /\ NoJobOf(inputs[n].call)) =>
            /\ calls[inputs[n].call].status = "resolved"
            /\ Cardinality({i \in Pos : origin[i] = inputs[n].call}) = 1
            /\ \A i \in Pos :
                  origin[i] = inputs[n].call =>
                     /\ JSONParse(hex2ascii(chain[i].body))
                          = StarData(inputs[n].star, inputs[n].address)
                     /\ blk[inputs[n].call] = chain[i]

\* C17: on a ledger used through its constructor and submitStar only, at
\* most one operation is between its read of the height and its push.
Appending(k) ==
    \E n \in 1..Len(queue) :
        /\ queue[n].op = k
        /\ queue[n].pc \in {"add1", "gbhHop", "add2", "add3"}

C17_MutualExclusion ==
    ExtraInit = {} => Cardinality({k \in Ops : Appending(k)}) <= 1

\* C18: when a validateChain() run has finished, its list holds at least
\* one finding for every block above genesis whose previousBlockHash was
\* not the hash of its predecessor when the run started.
C18_LinkageReported ==
    \A k \in ValidateCalls :
        NoJobOf(k) =>
            Len(errorLog[k]) >= Cardinality(calls[k].facts.unlinked)

ReadStep ==
    \/ GetChainHeight
    \/ RequestChallenge
    \/ GetBlockByHeight
    \/ GetBlockByHash
    \/ GetStarsByWalletAddress
    \/ ValidateChainCall
    \/ ValidateHop
    \/ ValidateCont
    \/ ValidateChainReturn
    \/ ReadJob

C20_ReadsChangeNothing ==
    [][ReadStep => (chain' = chain /\ height' = height)]_vars

C20_Witness ==
    /\ chain # <<>>
    /\ chain = sealedChain
    /\ \E k \in ValidateCalls : calls[k].status = "resolved"
    /\ \E k \in HeightLookups : calls[k].status = "resolved"

====
